---- MODULE Spec2Model ----
(***************************************************************************)
(* The CSS selector builder of src/src/05-objects-tasks.js.                *)
(*                                                                         *)
(* The module exports one CssSelectorBuilder instance, cssSelectorBuilder. *)
(* Every method mutates that instance and returns it; stringify renders    *)
(* the accumulated fields and resets them.                                 *)
(*                                                                         *)
(* JavaScript strings are TLA+ strings.  A field that can hold something   *)
(* other than a string (selector1, selector2, combinator) holds a tagged   *)
(* value: NULL, Str(s) or Ref(o).                                          *)
(***************************************************************************)
EXTENDS Integers, Sequences, FiniteSets

\* ------------------------------------------------------------------ bounds

\* Calls accepted between two renders.
MaxCalls == 3

\* Largest absolute value of a Rectangle side.
MaxSide == 3

\* ------------------------------------------------------------------ inputs

\* Names passed to element, id, class, attr, pseudoClass, pseudoElement.
Values == {"a", "b", ""}

\* Operator tokens passed to combine.
Combinators == {"+", " "}

\* ------------------------------------------------------------ JS values

NULL == [t |-> "null"]

Str(s) == [t |-> "string", v |-> s]

Ref(o) == [t |-> "object", ref |-> o]

\* `${x}` of a template literal.
TemplateString(x) ==
  IF x.t = "string" THEN x.v
  ELSE IF x.t = "object" THEN "[object Object]"
  ELSE "null"

\* if (x) on a string / on a reference-or-null.
TruthyStr(s) == s # ""

TruthyRef(x) == x # NULL

\* Array.prototype.join
RECURSIVE join(_, _)
join(arr, sep) ==
  IF Len(arr) = 0 THEN ""
  ELSE IF Len(arr) = 1 THEN arr[1]
  ELSE arr[1] \o sep \o join(Tail(arr), sep)

\* ------------------------------------------------------------ the class

\* The only instance ever constructed: const cssSelectorBuilder = new ...
cssSelectorBuilder == "cssSelectorBuilder"

Refs == {cssSelectorBuilder}

constructor ==
  [ elementType   |-> "",
    idName        |-> "",
    classNames    |-> <<>>,
    attributes    |-> <<>>,
    pseudoClasses |-> <<>>,
    pseudoElem    |-> "",
    selector1     |-> NULL,
    selector2     |-> NULL,
    combinator    |-> Str("") ]

\* clean that forgets to reset the list fields.
cleanKeepsLists(h, this) ==
  [h EXCEPT ![this].elementType = "",
            ![this].idName = "",
            ![this].pseudoElem = "",
            ![this].selector1 = NULL,
            ![this].selector2 = NULL,
            ![this].combinator = Str("")]

\* clean that forgets to reset the single-valued fields.
cleanKeepsScalars(h, this) ==
  [h EXCEPT ![this].classNames = <<>>,
            ![this].attributes = <<>>,
            ![this].pseudoClasses = <<>>,
            ![this].selector1 = NULL,
            ![this].selector2 = NULL,
            ![this].combinator = Str("")]

clean(h, this) ==
  [h EXCEPT ![this].elementType = "",
            ![this].idName = "",
            ![this].classNames = <<>>,
            ![this].attributes = <<>>,
            ![this].pseudoClasses = <<>>,
            ![this].pseudoElem = "",
            ![this].selector1 = NULL,
            ![this].selector2 = NULL,
            ![this].combinator = Str("")]

\* element that overwrites like id does.
elementOverwrites(h, this, value) == [h EXCEPT ![this].elementType = value]

element(h, this, value) ==
  IF ~TruthyStr(h[this].elementType)
  THEN [h EXCEPT ![this].elementType = value]
  ELSE h

id(h, this, value) == [h EXCEPT ![this].idName = value]

\* class that puts the new name first.
classPrepends(h, this, value) ==
  [h EXCEPT ![this].classNames = <<value>> \o @]

class(h, this, value) ==
  [h EXCEPT ![this].classNames = Append(@, value)]

\* attr that keeps only the last expression.
attrReplaces(h, this, value) ==
  [h EXCEPT ![this].attributes = <<value>>]

attr(h, this, value) ==
  [h EXCEPT ![this].attributes = Append(@, value)]

pseudoClass(h, this, value) ==
  [h EXCEPT ![this].pseudoClasses = Append(@, value)]

pseudoElement(h, this, value) == [h EXCEPT ![this].pseudoElem = value]

\* combine that stores its three arguments as the combination.
combineStoresOperands(h, this, args) ==
  [h EXCEPT ![this].selector1 = args[1],
            ![this].combinator = args[2],
            ![this].selector2 = args[3]]

\* combine(combinator) declares one parameter: it is bound to the first
\* argument of the call, whatever the number of arguments passed.
combine(h, this, args) ==
  [h EXCEPT ![this].combinator = args[1]]

\* The else branch of stringify: the simple selector of one instance.
simpleWithIdFirst(o) ==
  (IF TruthyStr(o.idName) THEN "#" \o o.idName ELSE "")
  \o (IF TruthyStr(o.elementType) THEN o.elementType ELSE "")
  \o (IF Len(o.classNames) > 0 THEN "." \o join(o.classNames, ".") ELSE "")
  \o (IF Len(o.attributes) > 0 THEN "[" \o join(o.attributes, "") \o "]" ELSE "")
  \o (IF Len(o.pseudoClasses) > 0 THEN ":" \o join(o.pseudoClasses, ":") ELSE "")
  \o (IF TruthyStr(o.pseudoElem) THEN "::" \o o.pseudoElem ELSE "")

simpleWithBracketPerAttr(o) ==
  (IF TruthyStr(o.elementType) THEN o.elementType ELSE "")
  \o (IF TruthyStr(o.idName) THEN "#" \o o.idName ELSE "")
  \o (IF Len(o.classNames) > 0 THEN "." \o join(o.classNames, ".") ELSE "")
  \o (IF Len(o.attributes) > 0 THEN "[" \o join(o.attributes, "][") \o "]" ELSE "")
  \o (IF Len(o.pseudoClasses) > 0 THEN ":" \o join(o.pseudoClasses, ":") ELSE "")
  \o (IF TruthyStr(o.pseudoElem) THEN "::" \o o.pseudoElem ELSE "")

simple(o) ==
  (IF TruthyStr(o.elementType) THEN o.elementType ELSE "")
  \o (IF TruthyStr(o.idName) THEN "#" \o o.idName ELSE "")
  \o (IF Len(o.classNames) > 0 THEN "." \o join(o.classNames, ".") ELSE "")
  \o (IF Len(o.attributes) > 0 THEN "[" \o join(o.attributes, "") \o "]" ELSE "")
  \o (IF Len(o.pseudoClasses) > 0 THEN ":" \o join(o.pseudoClasses, ":") ELSE "")
  \o (IF TruthyStr(o.pseudoElem) THEN "::" \o o.pseudoElem ELSE "")

\* stringify returns its string and leaves the heap changed (clean, and the
\* nested stringify calls of the combined branch): [result, heap].
\* this.combinator and this.selector2 are read after selector1.stringify()
\* has returned, as the statements of the source are ordered.
RECURSIVE stringify(_, _)
stringify(h, this) ==
  IF TruthyRef(h[this].selector1)
  THEN LET r1 == stringify(h, h[this].selector1.ref)
           h1 == r1.heap
           mid == " " \o TemplateString(h1[this].combinator) \o " "
           r2 == stringify(h1, h1[this].selector2.ref)
       IN  [result |-> r1.result \o mid \o r2.result,
            heap   |-> clean(r2.heap, this)]
  ELSE [result |-> simple(h[this]), heap |-> clean(h, this)]

\* ------------------------------------------------------------- Rectangle

\* Widths and heights passed to Rectangle and assigned to its fields.
Sides == -MaxSide..MaxSide

\* new Rectangle(width, height): the fields of the object constructed
\* (getArea, the third property, is the function below).
Rectangle(width, height) == [width |-> width, height |-> height]

\* getArea that adds the sides.
getAreaAdds(this) == this.width + this.height

getArea(this) == this.width * this.height

\* ------------------------------------------------------------------ state

VARIABLES
  heap,      \* Refs -> instance fields
  ret,       \* outcome of the call that just returned: op, args, value, thrown
  calls,     \* history: calls made on the instance since its last reset
  rendered,  \* history: the calls consumed by the stringify that just returned
  renders,   \* history: stringify calls so far, counted 0, 1, 2 (2 = two or more)
  chains,    \* history: what the client built through each chain handle
  shown,     \* history: the chain whose stringify just returned
  rect,      \* the fields of the Rectangle r a client holds, once constructed
  rectRet,   \* outcome of the last operation on r: op, args, value
  rectMade   \* history: the arguments r was constructed with

vars ==
  <<heap, ret, calls, rendered, renders, chains, shown,
    rect, rectRet, rectMade>>

rectangleState == <<rect, rectRet, rectMade>>

builderState == <<heap, ret, calls, rendered, renders, chains, shown>>

NoRect == [constructed |-> FALSE]

sequentialHistory == <<calls, rendered, renders>>

chainHistory == <<chains, shown>>

\* Handles a client holds at the same time.
Chains == {"A", "B"}

Call(op, value) == [op |-> op, value |-> value]

\* What a client means by a chain: the calls it made on the handle, or the
\* combination of two chains it passed to combine.
Simple(log) == [kind |-> "simple", log |-> log]

Combined(l, op, r) ==
  [kind |-> "combined", left |-> l, operator |-> op, right |-> r]

NoChain == [chain |-> "none"]

RECURSIVE Size(_)
Size(e) ==
  IF e.kind = "simple" THEN Len(e.log)
  ELSE 1 + Size(e.left) + Size(e.right)

\* No method of the class has a throw statement: every call returns.
Returned(op, args, value) ==
  [op |-> op, args |-> args, value |-> value, thrown |-> "none"]

Init ==
  /\ heap = [o \in Refs |-> constructor]
  /\ ret = Returned("new", <<>>, Ref(cssSelectorBuilder))
  /\ calls = <<>>
  /\ rendered = <<>>
  /\ renders = 0
  /\ chains = [c \in Chains |-> Simple(<<>>)]
  /\ shown = NoChain
  /\ rect = NoRect
  /\ rectRet = [op |-> "none"]
  /\ rectMade = <<>>

\* The three arguments of builder.combine(left, operator, right): left and
\* right are values returned by builder methods, that is references to the
\* one instance.
CombineArgs(v) ==
  <<Ref(cssSelectorBuilder), Str(v), Ref(cssSelectorBuilder)>>

\* ---------------------------------------------- one chain after the other

\* A builder method other than stringify was called on the facade; h2 is the
\* heap it leaves, v the name passed (for combine: the operator token).
MethodWithoutReturn(op, v, args, h2) ==
  /\ Len(calls) < MaxCalls
  /\ heap' = h2
  /\ ret' = Returned(op, args, NULL)
  /\ calls' = Append(calls, Call(op, v))
  /\ rendered' = <<>>
  /\ UNCHANGED <<renders, chainHistory, rectangleState>>

Method(op, v, args, h2) ==
  /\ Len(calls) < MaxCalls
  /\ heap' = h2
  /\ ret' = Returned(op, args, Ref(cssSelectorBuilder))
  /\ calls' = Append(calls, Call(op, v))
  /\ rendered' = <<>>
  /\ UNCHANGED <<renders, chainHistory, rectangleState>>

Element ==
  \E v \in Values :
    Method("element", v, <<v>>, element(heap, cssSelectorBuilder, v))

Id ==
  \E v \in Values :
    Method("id", v, <<v>>, id(heap, cssSelectorBuilder, v))

Class ==
  \E v \in Values :
    Method("class", v, <<v>>, class(heap, cssSelectorBuilder, v))

Attr ==
  \E v \in Values :
    Method("attr", v, <<v>>, attr(heap, cssSelectorBuilder, v))

PseudoClass ==
  \E v \in Values :
    Method("pseudoClass", v, <<v>>, pseudoClass(heap, cssSelectorBuilder, v))

PseudoElement ==
  \E v \in Values :
    Method("pseudoElement", v, <<v>>,
           pseudoElement(heap, cssSelectorBuilder, v))

Combine ==
  \E v \in Combinators :
    Method("combine", v, CombineArgs(v),
           combine(heap, cssSelectorBuilder, CombineArgs(v)))

Stringify ==
  LET r == stringify(heap, cssSelectorBuilder) IN
  /\ heap' = r.heap
  /\ ret' = Returned("stringify", <<>>, Str(r.result))
  /\ rendered' = calls
  /\ calls' = <<>>
  /\ renders' = IF renders < 2 THEN renders + 1 ELSE renders
  /\ UNCHANGED <<chainHistory, rectangleState>>

Next ==
  \/ Element
  \/ Id
  \/ Class
  \/ Attr
  \/ PseudoClass
  \/ PseudoElement
  \/ Combine
  \/ Stringify

Spec == Init /\ [][Next]_vars

\* ------------------------------------------- two chains held at one time

\* Calls in flight on all handles together.
InFlight == Size(chains["A"]) + Size(chains["B"])

\* A client holding two handles calls a method on handle c.  Both handles
\* are the value a facade method returned: the one instance.
ChainMethod(c, op, v, h2) ==
  /\ chains[c].kind = "simple"
  /\ InFlight < MaxCalls
  /\ heap' = h2
  /\ ret' = Returned(op, <<v>>, Ref(cssSelectorBuilder))
  /\ chains' = [chains EXCEPT ![c] = Simple(Append(@.log, Call(op, v)))]
  /\ shown' = NoChain
  /\ UNCHANGED <<sequentialHistory, rectangleState>>

ChainElement ==
  \E c \in Chains, v \in Values :
    ChainMethod(c, "element", v, element(heap, cssSelectorBuilder, v))

ChainId ==
  \E c \in Chains, v \in Values :
    ChainMethod(c, "id", v, id(heap, cssSelectorBuilder, v))

ChainClass ==
  \E c \in Chains, v \in Values :
    ChainMethod(c, "class", v, class(heap, cssSelectorBuilder, v))

ChainAttr ==
  \E c \in Chains, v \in Values :
    ChainMethod(c, "attr", v, attr(heap, cssSelectorBuilder, v))

ChainPseudoClass ==
  \E c \in Chains, v \in Values :
    ChainMethod(c, "pseudoClass", v, pseudoClass(heap, cssSelectorBuilder, v))

ChainPseudoElement ==
  \E c \in Chains, v \in Values :
    ChainMethod(c, "pseudoElement", v,
                pseudoElement(heap, cssSelectorBuilder, v))

\* builder.combine(left, operator, right) on the chains of two different
\* handles; the client keeps the value returned in the handle of left and
\* drops the handle of right.
ChainCombine ==
  \E cl \in Chains, cr \in Chains, v \in Combinators :
    /\ cl # cr
    /\ InFlight < MaxCalls
    /\ heap' = combine(heap, cssSelectorBuilder, CombineArgs(v))
    /\ ret' = Returned("combine", CombineArgs(v), Ref(cssSelectorBuilder))
    /\ chains' = [chains EXCEPT ![cl] = Combined(chains[cl], v, chains[cr]),
                                ![cr] = Simple(<<>>)]
    /\ shown' = NoChain
    /\ UNCHANGED <<sequentialHistory, rectangleState>>

ChainStringify ==
  \E c \in Chains :
    LET r == stringify(heap, cssSelectorBuilder) IN
    /\ heap' = r.heap
    /\ ret' = Returned("stringify", <<>>, Str(r.result))
    /\ shown' = [chain |-> c, expr |-> chains[c]]
    /\ chains' = [chains EXCEPT ![c] = Simple(<<>>)]
    /\ UNCHANGED <<sequentialHistory, rectangleState>>

NextChains ==
  \/ ChainElement
  \/ ChainId
  \/ ChainClass
  \/ ChainAttr
  \/ ChainPseudoClass
  \/ ChainPseudoElement
  \/ ChainCombine
  \/ ChainStringify

SpecChains == Init /\ [][NextChains]_vars

\* ---------------------------------------------------- a Rectangle in use

\* const r = new Rectangle(width, height)
NewRectangle ==
  \E w \in Sides, h \in Sides :
    /\ rect' = Rectangle(w, h)
    /\ rectRet' = [op |-> "new", args |-> <<w, h>>]
    /\ rectMade' = <<w, h>>
    /\ UNCHANGED builderState

\* r.width = w: the field is a plain writable property.
SetWidth ==
  \E w \in Sides :
    /\ rect # NoRect
    /\ rect' = [rect EXCEPT !.width = w]
    /\ rectRet' = [op |-> "setWidth", args |-> <<w>>]
    /\ UNCHANGED <<rectMade, builderState>>

\* r.height = h
SetHeight ==
  \E h \in Sides :
    /\ rect # NoRect
    /\ rect' = [rect EXCEPT !.height = h]
    /\ rectRet' = [op |-> "setHeight", args |-> <<h>>]
    /\ UNCHANGED <<rectMade, builderState>>

\* r.getArea()
GetArea ==
  /\ rect # NoRect
  /\ rectRet' = [op |-> "getArea", args |-> <<>>, value |-> getArea(rect)]
  /\ UNCHANGED <<rect, rectMade, builderState>>

NextRectangle ==
  \/ NewRectangle
  \/ SetWidth
  \/ SetHeight
  \/ GetArea

SpecRectangle == Init /\ [][NextRectangle]_vars

\* ------------------------------------------------- reading the histories

Result == ret.value.v

JustRendered == ret.op = "stringify"

Builder == heap[cssSelectorBuilder]

\* The names passed to method op in a log, in call order.
Vals(log, op) ==
  LET s == SelectSeq(log, LAMBDA c : c.op = op)
  IN  [i \in 1..Len(s) |-> s[i].value]

\* Every name of a sequence with a mark in front: ".c1.c2...cn".
RECURSIVE Prefixed(_, _)
Prefixed(names, mark) ==
  IF names = <<>> THEN ""
  ELSE mark \o Head(names) \o Prefixed(Tail(names), mark)

\* The names of a sequence one after the other: "e1e2...en".
RECURSIVE Flat(_)
Flat(names) ==
  IF names = <<>> THEN "" ELSE Head(names) \o Flat(Tail(names))

Contains(s, sub) ==
  \E i \in 1..(Len(s) - Len(sub) + 1) : SubSeq(s, i, i + Len(sub) - 1) = sub

Count(s, ch) == Cardinality({i \in 1..Len(s) : SubSeq(s, i, i) = ch})

StartsWith(s, pre) == Len(pre) <= Len(s) /\ SubSeq(s, 1, Len(pre)) = pre

EndsWith(s, suf) ==
  Len(suf) <= Len(s) /\ SubSeq(s, Len(s) - Len(suf) + 1, Len(s)) = suf

SingleParts == {"element", "id", "pseudoElement"}

\* A log of a valid simple selector: part methods only, element, id and
\* pseudoElement at most once each and with a name.
ValidSimple(log) ==
  /\ \A i \in 1..Len(log) : log[i].op # "combine"
  /\ \A op \in SingleParts :
       /\ Len(Vals(log, op)) <= 1
       /\ \A i \in 1..Len(Vals(log, op)) : Vals(log, op)[i] # ""

\* The canonical string of a valid simple selector, from the calls made.
Canonical(log) ==
  Flat(Vals(log, "element"))
  \o Prefixed(Vals(log, "id"), "#")
  \o Prefixed(Vals(log, "class"), ".")
  \o (IF Vals(log, "attr") = <<>> THEN ""
      ELSE "[" \o Flat(Vals(log, "attr")) \o "]")
  \o Prefixed(Vals(log, "pseudoClass"), ":")
  \o Prefixed(Vals(log, "pseudoElement"), "::")

\* ----------------------------------------------------------------- claims

\* C1: a simple selector built on a reset builder by part calls in any order
\* (element, id, pseudoElement at most once each) renders as element type,
\* #id, .classes, [attributes], :pseudo-classes, ::pseudo-element, in that
\* order and with nothing between the groups.
C1_CanonicalOrder ==
  (JustRendered /\ ValidSimple(rendered)) => Result = Canonical(rendered)

\* id('b').element('a') has rendered 'a#b'.
C1_Witness ==
  /\ JustRendered
  /\ rendered = <<Call("id", "b"), Call("element", "a")>>
  /\ Result = "a#b"

\* C2: a second element, id or pseudoElement call on the same accumulation
\* fails with DuplicateSelectorPart.
C2_DuplicateRejected ==
  (ret.op \in SingleParts /\ Len(Vals(calls, ret.op)) >= 2)
    => ret.thrown = "DuplicateSelectorPart"

\* What the client expects a chain to render: a simple chain canonically, a
\* combination as left, space, operator, space, right.
RECURSIVE ExpectedRender(_)
ExpectedRender(e) ==
  IF e.kind = "simple" THEN Canonical(e.log)
  ELSE ExpectedRender(e.left) \o " " \o e.operator \o " "
       \o ExpectedRender(e.right)

\* Every simple chain of an expression is a valid simple selector with at
\* least one part.
RECURSIVE WellBuilt(_)
WellBuilt(e) ==
  IF e.kind = "simple" THEN Len(e.log) >= 1 /\ ValidSimple(e.log)
  ELSE WellBuilt(e.left) /\ WellBuilt(e.right)

ShownKind(k) == JustRendered /\ shown # NoChain /\ shown.expr.kind = k

\* C3: stringify of combine(left, operator, right) is stringify(left), a
\* space, the operator, a space, stringify(right), nested combinations
\* included.
C3_CombinedRender ==
  (ShownKind("combined") /\ WellBuilt(shown.expr))
    => Result = ExpectedRender(shown.expr)

\* C4: chains started through the facade share no state: whatever calls the
\* other chain made in between, a chain renders exactly the parts set by its
\* own calls.
C4_ChainsIsolated ==
  (ShownKind("simple") /\ WellBuilt(shown.expr))
    => Result = Canonical(shown.expr.log)

AllEmpty(o) ==
  /\ o.elementType = ""
  /\ o.idName = ""
  /\ o.classNames = <<>>
  /\ o.attributes = <<>>
  /\ o.pseudoClasses = <<>>
  /\ o.pseudoElem = ""

Named(log, ops) == \E i \in 1..Len(log) : log[i].op \in ops

\* C5: right after every stringify all accumulated fields are empty, and a
\* render shows no part that was set before the previous render: every group
\* mark and every name in it comes from a call made since that render.
C5_RenderResets ==
  JustRendered =>
    /\ AllEmpty(Builder)
    /\ Named(rendered, {"id"}) \/ ~Contains(Result, "#")
    /\ Named(rendered, {"class"}) \/ ~Contains(Result, ".")
    /\ Named(rendered, {"attr"}) \/ ~Contains(Result, "[")
    /\ Named(rendered, {"pseudoClass", "pseudoElement"})
         \/ ~Contains(Result, ":")
    /\ \A v \in Values \ {""} :
         Contains(Result, v) =>
           \E i \in 1..Len(rendered) : rendered[i].value = v

\* A second render, of a chain that set only an id, shows only that id.
C5_Witness ==
  /\ JustRendered
  /\ renders = 2
  /\ rendered = <<Call("id", "a")>>
  /\ Result = "#a"
  /\ AllEmpty(Builder)

C7_CallOrderKept ==
  JustRendered =>
    LET cs == Vals(rendered, "class")
        ps == Vals(rendered, "pseudoClass")
    IN  /\ Contains(Result, Prefixed(cs, "."))
        /\ Count(Result, ".") = Len(cs)
        /\ Contains(Result, Prefixed(ps, ":"))
        /\ Count(Result, ":") \in {Len(ps), Len(ps) + 2}

\* class('b').class('a').class('b') has rendered '.b.a.b'.
C7_Witness ==
  /\ JustRendered
  /\ rendered = <<Call("class", "b"), Call("class", "a"), Call("class", "b")>>
  /\ Result = ".b.a.b"

\* pseudoClass('b').pseudoClass('a') has rendered ':b:a'.
C7_WitnessPseudo ==
  /\ JustRendered
  /\ rendered = <<Call("pseudoClass", "b"), Call("pseudoClass", "a")>>
  /\ Result = ":b:a"

Once(log, op) == Len(Vals(log, op)) = 1 /\ Vals(log, op)[1] # ""

\* C8: after a render, element, id and pseudoElement can each be called once
\* more: the call returns without error and the name passed is the one the
\* next render shows.
C8_AcceptedAfterRender ==
  /\ (renders >= 1 /\ ret.op \in SingleParts /\ Len(Vals(calls, ret.op)) = 1)
       => /\ ret.thrown = "none"
          /\ ret.value = Ref(cssSelectorBuilder)
  /\ (JustRendered /\ renders = 2) =>
       /\ Once(rendered, "element")
            => StartsWith(Result, Vals(rendered, "element")[1])
       /\ Once(rendered, "id")
            => Contains(Result, "#" \o Vals(rendered, "id")[1])
       /\ Once(rendered, "pseudoElement")
            => EndsWith(Result, "::" \o Vals(rendered, "pseudoElement")[1])

\* A second render shows the three names passed after the first one.
C8_Witness ==
  /\ JustRendered
  /\ renders = 2
  /\ rendered = <<Call("pseudoElement", "b"), Call("id", "a"),
                  Call("element", "b")>>
  /\ Result = "b#a::b"

\* C9: class, attr, pseudoClass and combine never fail, and the argument
\* passed (attribute expression, pseudo-class name, combinator token) shows
\* unchanged in the next render of that selector.
C9_PassedThrough ==
  /\ ret.op \in {"class", "attr", "pseudoClass", "combine"}
       => ret.thrown = "none"
  /\ JustRendered =>
       \A i \in 1..Len(rendered) :
         rendered[i].op \in {"class", "attr", "pseudoClass", "combine"}
           => Contains(Result, rendered[i].value)

\* C10: combine(left, operator, right) returns a new selector, distinct from
\* left and right, whose combination is (left, operator, right).
C10_CombineMakesNew ==
  ret.op = "combine" =>
    /\ ret.value # ret.args[1]
    /\ ret.value # ret.args[3]
    /\ ret.value.t = "object"
    /\ heap[ret.value.ref].selector1 = ret.args[1]
    /\ heap[ret.value.ref].combinator = ret.args[2]
    /\ heap[ret.value.ref].selector2 = ret.args[3]

\* C11: a Rectangle constructed with (width, height) has those values as its
\* width and height fields, and getArea() returns the product of the current
\* fields, also after a field has been reassigned.
C11_RectangleArea ==
  /\ rectRet.op = "new"
       => rect.width = rectRet.args[1] /\ rect.height = rectRet.args[2]
  /\ rectRet.op = "getArea"
       => rectRet.value = rect.width * rect.height

\* new Rectangle(1, 1), then width 2 and height 3 assigned: getArea() gave 6.
C11_Witness ==
  /\ rectRet.op = "getArea"
  /\ rectMade = <<1, 1>>
  /\ rect = [width |-> 2, height |-> 3]
  /\ rectRet.value = 6

ListParts == {"class", "attr", "pseudoClass"}

\* The field a list method appends to.
ListField(op) ==
  CASE op = "class" -> "classNames"
    [] op = "attr" -> "attributes"
    [] op = "pseudoClass" -> "pseudoClasses"

ListFields == {ListField(op) : op \in ListParts}

IsPrefix(s, t) == Len(s) <= Len(t) /\ SubSeq(t, 1, Len(s)) = s

\* C12: class, attr and pseudoClass add their argument at the end of their
\* own sequence, keep the earlier entries in place and change no other field;
\* between two renders the three sequences never shrink or reorder.
C12_AppendOnly ==
  [][ /\ ret'.op \in ListParts =>
           LET f == ListField(ret'.op) IN
           /\ Builder'[f] = Append(Builder[f], ret'.args[1])
           /\ \A g \in DOMAIN Builder \ {f} : Builder'[g] = Builder[g]
      /\ ret'.op # "stringify" =>
           \A f \in ListFields : IsPrefix(Builder[f], Builder'[f])
    ]_vars

\* attr('b') then attr('a') on a selector that has a class: the attributes
\* are b, a and the class is as it was.
C12_Witness ==
  /\ ret.op = "attr"
  /\ calls = <<Call("class", "a"), Call("attr", "b"), Call("attr", "a")>>
  /\ Builder.attributes = <<"b", "a">>
  /\ Builder.classNames = <<"a">>

PartMethods == SingleParts \cup ListParts

Last(names) == names[Len(names)]

\* C13: element, id, class, attr, pseudoClass and pseudoElement return the
\* instance they were called on, so the parts set by the calls of a chain
\* are all on that one instance until the render.
C13_ReturnsSameInstance ==
  ret.op \in PartMethods =>
    /\ ret.value = Ref(cssSelectorBuilder)
    /\ Builder.classNames = Vals(calls, "class")
    /\ Builder.attributes = Vals(calls, "attr")
    /\ Builder.pseudoClasses = Vals(calls, "pseudoClass")
    /\ Vals(calls, "id") # <<>> => Builder.idName = Last(Vals(calls, "id"))
    /\ Vals(calls, "pseudoElement") # <<>>
         => Builder.pseudoElem = Last(Vals(calls, "pseudoElement"))
    /\ Vals(calls, "element") # <<>>
         => \E i \in 1..Len(Vals(calls, "element")) :
              Builder.elementType = Vals(calls, "element")[i]

\* element('a').class('b').pseudoElement('a'): the third call returned the
\* builder, which holds the three parts.
C13_Witness ==
  /\ ret.op = "pseudoElement"
  /\ ret.value = Ref(cssSelectorBuilder)
  /\ calls = <<Call("element", "a"), Call("class", "b"),
               Call("pseudoElement", "a")>>
  /\ Builder.elementType = "a"
  /\ Builder.classNames = <<"b">>
  /\ Builder.pseudoElem = "a"

C15_FirstOrLastWins ==
  [][ /\ (ret'.op = "element" /\ Builder.elementType # "")
           => heap' = heap
      /\ ret'.op = "id"
           => heap' = [heap EXCEPT ![cssSelectorBuilder].idName = ret'.args[1]]
      /\ ret'.op = "pseudoElement"
           => heap' =
                [heap EXCEPT ![cssSelectorBuilder].pseudoElem = ret'.args[1]]
    ]_vars

\* element('a').element('b'): the element type is still a.
C15_Witness ==
  /\ ret.op = "element"
  /\ calls = <<Call("element", "a"), Call("element", "b")>>
  /\ Builder.elementType = "a"

\* id('a').id('b'): the id is b.
C15_WitnessId ==
  /\ ret.op = "id"
  /\ calls = <<Call("id", "a"), Call("id", "b")>>
  /\ Builder.idName = "b"

\* pseudoElement('a').pseudoElement('b'): the pseudo-element is b.
C15_WitnessPseudoElement ==
  /\ ret.op = "pseudoElement"
  /\ calls = <<Call("pseudoElement", "a"), Call("pseudoElement", "b")>>
  /\ Builder.pseudoElem = "b"

\* C16: stringify consumes what was accumulated: a stringify that follows
\* another with no builder call in between returns the empty string, and so
\* does stringify on a builder on which no part has been set.
C16_SecondRenderEmpty ==
  (JustRendered /\ rendered = <<>>) => Result = ""

\* A second stringify right after the first has returned ''.
C16_Witness ==
  /\ JustRendered
  /\ renders = 2
  /\ rendered = <<>>
  /\ Result = ""

====
